---- MODULE Spec2Model ----
(***************************************************************************)
(* The token lifecycle of src/app/api/v1/login.py: the three handlers      *)
(* login_for_access_token (/login), get_access_token (/token) and          *)
(* refresh_access_token (/refresh), run as concurrent request-handling     *)
(* tasks over a shared wall clock and the user store.                      *)
(*                                                                         *)
(* Python values are modelled as follows.                                  *)
(*   - a str is a sequence of characters; an encoded credential is the     *)
(*     one-element sequence <<[sub, exp, sig]>> (an opaque block that      *)
(*     slicing cannot split), so "" is <<>> and is falsy;                  *)
(*   - an Optional value is <<>> (None, falsy) or <<v>>;                   *)
(*   - a datetime is its instant in clock ticks plus its tzinfo;           *)
(*   - time is counted in ticks: the two lifetimes are scaled to ticks.    *)
(***************************************************************************)
EXTENDS Integers, Sequences, FiniteSets, TLC

\* ------------------------------------------------------------------ bounds
\* Number of request-handling tasks (each handles one request).
NumReq == 3
\* The wall clock stops advancing at MaxTime.
MaxTime == 3
\* Number of requests in flight at once.
MaxActive == 2

Requests == 1..NumReq

\* ----------------------------------------------------- configuration
\* core.security.ACCESS_TOKEN_EXPIRE_MINUTES, in clock ticks.
ACCESS_TOKEN_EXPIRE_MINUTES == 2
\* settings.REFRESH_TOKEN_EXPIRE_DAYS, in clock ticks.
REFRESH_TOKEN_EXPIRE_DAYS == 3

\* timedelta(minutes=m) / timedelta(days=d): a duration in ticks.
timedelta(n) == n

\* ------------------------------------------------------- user store
\* The accounts the user-lookup collaborator may hold.
Accounts ==
    { [username |-> "alice", name |-> "Alice", email |-> "alice@x.io",
       profile_image_url |-> "img/alice", password |-> "pw"] }

AllUsernames == { a.username : a \in Accounts }

\* The identity dict authenticate_user returns (no password in it).
Identity(a) ==
    [username |-> a.username, name |-> a.name, email |-> a.email,
     profile_image_url |-> a.profile_image_url]

\* authenticate_user(username_or_email, password, db): None on a lookup miss
\* and on a password mismatch alike.
authenticate_user(username_or_email, password, db_users) ==
    LET hit == { a \in Accounts :
                   /\ a.username \in db_users
                   /\ (a.username = username_or_email \/ a.email = username_or_email) }
    IN  IF hit = {} THEN <<>>
        ELSE LET a == CHOOSE x \in hit : TRUE
             IN  IF a.password = password THEN <<Identity(a)>> ELSE <<>>

\* ------------------------------------------------------ claims codec
\* The signature over (subject, expiry) under the process-wide signing key.
Sign(sub, exp) == <<"hmac", sub, exp>>

\* encode(claims) -> credential string.
Encode(sub, exp) == << [sub |-> sub, exp |-> exp, sig |-> Sign(sub, exp)] >>

\* decode succeeds only on a one-block string whose signature covers its payload.
DecodeOk(token) ==
    /\ Len(token) = 1
    /\ token[1].sig = Sign(token[1].sub, token[1].exp)

\* is_expired(claims, now): now >= claims.expires_at.
is_expired(exp, now) == now >= exp

\* ------------------------------------------------------ token issuer
\* create_access_token(data, expires_delta=None) called at instant now:
\* expires_at = now + ttl, ttl defaulting to the access-token lifetime.
create_access_token(sub, expires_delta, now) ==
    Encode(sub, now + (IF expires_delta = <<>>
                       THEN timedelta(ACCESS_TOKEN_EXPIRE_MINUTES)
                       ELSE expires_delta[1]))

\* create_refresh_token(data) called at instant now.
create_refresh_token(sub, now) ==
    Encode(sub, now + timedelta(REFRESH_TOKEN_EXPIRE_DAYS))

\* ---------------------------------------------------- token verifier
\* The verifier's internal failure reason (or "ok").
VerifyFailure(token, db_users, db_revoked, now) ==
    IF ~DecodeOk(token) THEN "Malformed"
    ELSE IF is_expired(token[1].exp, now) THEN "Expired"
    ELSE IF token[1].sub \notin db_users \/ token \in db_revoked THEN "InvalidToken"
    ELSE "ok"

\* verify_token(token, db): TokenData on success, None on every failure.  The
\* one path for access and refresh tokens alike: it takes no token kind.
verify_token(token, db_users, db_revoked, now) ==
    IF VerifyFailure(token, db_users, db_revoked, now) = "ok"
    THEN << [username_or_email |-> token[1].sub] >>
    ELSE <<>>

\* ------------------------------------------------- strings and datetimes
BearerPrefix == <<"B", "e", "a", "r", "e", "r", " ">>

\* s.startswith(p)
startswith(s, p) == Len(s) >= Len(p) /\ SubSeq(s, 1, Len(p)) = p

\* s[7:]
SliceFrom7(s) == SubSeq(s, 8, Len(s))

\* request.headers.get("Authorization"): None when the header is absent.
NoHeader == [present |-> FALSE, value |-> <<>>]
Header(v) == [present |-> TRUE, value |-> v]

\* datetime.now(timezone.utc): a timezone-aware datetime.
now_utc(t) == [t |-> t, tz |-> "utc"]

\* datetime + timedelta
plus(dt, delta) == [dt EXCEPT !.t = dt.t + delta]

\* datetime.isoformat(): an aware datetime prints its UTC offset after the
\* instant, a naive one prints the instant only.
isoformat(dt) == IF dt.tz = "utc" THEN <<dt.t, "+00:00">> ELSE <<dt.t>>

\* isoformat() + 'Z'
ExpiresAtString(dt) == isoformat(dt) \o <<"Z">>

\* schemas.Token
Token(access_token, expires_at) ==
    [access_token |-> access_token, token_type |-> "bearer", expires_at |-> expires_at]

\* ------------------------------------------------------ request tasks
NoForm == [username |-> "", password |-> ""]

\* A task before its request arrives.  The last seven fields are history:
\* the number of verify_token calls and the verifier's internal reason, the
\* credentials the task had the issuer create (kind, string, instant of the
\* issuer's clock reading), the task's own clock readings in order, the user
\* table it read, the control points it went through, and the tasks that
\* were in flight when its request arrived.
IdleReq ==
    [op |-> "idle", pc |-> "idle", form |-> NoForm, header |-> NoHeader,
     user |-> <<>>, user_data |-> <<>>, access_expires_at |-> <<>>,
     access_token |-> <<>>, refresh_token |-> <<>>, resp |-> <<>>, err |-> "",
     vcalls |-> 0, vreason |-> "", minted |-> <<>>, reads |-> <<>>,
     users_read |-> {}, path |-> <<>>, overlapped |-> {}]

Minted(kind, cred, at) == [kind |-> kind, cred |-> cred, at |-> at]

\* ---- login_for_access_token ------------------------------------------
\* A variant of lines 32-35 that tells an unknown user from a wrong password.
MutLoginAuthenticateEnumerating(r, form, db_users) ==
    LET user == authenticate_user(form.username, form.password, db_users)
        r1 == [r EXCEPT !.op = "login", !.form = form, !.users_read = db_users]
    IN  IF user = <<>>
        THEN [r1 EXCEPT !.pc = "rejected",
                        !.err = IF form.username \in db_users
                                THEN "Wrong password."
                                ELSE "Wrong username, email or password."]
        ELSE [r1 EXCEPT !.pc = "l_expiry", !.user = user]

\* lines 32-35: authenticate, raise UnauthorizedException when not user.
LoginAuthenticate(r, form, db_users) ==
    LET user == authenticate_user(form.username, form.password, db_users)
        r1 == [r EXCEPT !.op = "login", !.form = form, !.users_read = db_users]
    IN  IF user = <<>>
        THEN [r1 EXCEPT !.pc = "rejected", !.err = "Wrong username, email or password."]
        ELSE [r1 EXCEPT !.pc = "l_expiry", !.user = user]

\* lines 37-38: access_expires_at = datetime.now(timezone.utc) + access_token_expires
LoginAccessExpiry(r, now) ==
    [r EXCEPT !.pc = "l_access",
              !.access_expires_at =
                  <<plus(now_utc(now), timedelta(ACCESS_TOKEN_EXPIRE_MINUTES))>>,
              !.reads = Append(@, now)]

\* line 39: access_token = await create_access_token(sub, expires_delta)
LoginCreateAccess(r, now) ==
    LET tok == create_access_token(r.user[1].username,
                                   <<timedelta(ACCESS_TOKEN_EXPIRE_MINUTES)>>, now)
    IN  [r EXCEPT !.pc = "l_refresh", !.access_token = tok,
                  !.minted = Append(@, Minted("access", tok, now))]

\* line 41: refresh_token = await create_refresh_token(sub)
LoginCreateRefresh(r, now) ==
    LET tok == create_refresh_token(r.user[1].username, now)
    IN  [r EXCEPT !.pc = "l_respond", !.refresh_token = tok,
                  !.minted = Append(@, Minted("refresh", tok, now))]

\* lines 42-64: refresh_expires_at and the LoginResponse.
LoginRespond(r, now) ==
    LET refresh_expires_at == plus(now_utc(now), timedelta(REFRESH_TOKEN_EXPIRE_DAYS))
        u == r.user[1]
    IN  [r EXCEPT
          !.pc = "done",
          !.reads = Append(@, now),
          !.resp = << [user |-> [name |-> u.name, username |-> u.username,
                                 email |-> u.email,
                                 profile_image_url |-> u.profile_image_url],
                       backend_tokens |->
                         [access_token |->
                              Token(r.access_token,
                                    ExpiresAtString(r.access_expires_at[1])),
                          refresh_token |->
                              Token(r.refresh_token,
                                    ExpiresAtString(refresh_expires_at))]] >>]

\* ---- get_access_token ------------------------------------------------
\* lines 75-77
TokenAuthenticate(r, form, db_users) ==
    LET user == authenticate_user(form.username, form.password, db_users)
        r1 == [r EXCEPT !.op = "token", !.form = form, !.users_read = db_users]
    IN  IF user = <<>>
        THEN [r1 EXCEPT !.pc = "rejected", !.err = "Wrong username, email or password."]
        ELSE [r1 EXCEPT !.pc = "t_expiry", !.user = user]

\* lines 79-80
TokenAccessExpiry(r, now) ==
    [r EXCEPT !.pc = "t_access",
              !.access_expires_at =
                  <<plus(now_utc(now), timedelta(ACCESS_TOKEN_EXPIRE_MINUTES))>>,
              !.reads = Append(@, now)]

\* lines 81-87: create the access token and return the Token.
TokenCreateAccess(r, now) ==
    LET tok == create_access_token(r.user[1].username,
                                   <<timedelta(ACCESS_TOKEN_EXPIRE_MINUTES)>>, now)
    IN  [r EXCEPT !.pc = "done", !.access_token = tok,
                  !.minted = Append(@, Minted("access", tok, now)),
                  !.resp = << Token(tok, ExpiresAtString(r.access_expires_at[1])) >>]

\* ---- refresh_access_token --------------------------------------------
\* A variant of lines 92-101 without the empty-remainder check.
MutHeaderFailureNoEmptyCheck(auth_header) ==
    IF ~auth_header.present \/ auth_header.value = <<>>
    THEN "Authorization header missing."
    ELSE IF ~startswith(auth_header.value, BearerPrefix)
    THEN "Authorization header must start with 'Bearer '"
    ELSE ""

\* lines 92-101: the three header checks, in the code's order; "" when the
\* header passes them.
HeaderFailure(auth_header) ==
    IF ~auth_header.present \/ auth_header.value = <<>>
    THEN "Authorization header missing."
    ELSE IF ~startswith(auth_header.value, BearerPrefix)
    THEN "Authorization header must start with 'Bearer '"
    ELSE IF SliceFrom7(auth_header.value) = <<>>
    THEN "Refresh token missing."
    ELSE ""

\* A variant of lines 104-105 that lets a failed verification through.
MutVerifierFailureMessageIgnored(user_data, reason) == ""

\* A variant of lines 104-105 that reports the verifier's own reason.
MutVerifierFailureMessageByReason(user_data, reason) ==
    IF user_data # <<>> THEN ""
    ELSE IF reason = "Expired" THEN "Refresh token expired."
    ELSE "Invalid refresh token."

\* lines 104-105: what the handler reports for a verifier result.
VerifierFailureMessage(user_data, reason) ==
    IF user_data = <<>> THEN "Invalid refresh token." ELSE ""

\* lines 92-105: header checks, then verify_token; PresentedToken ->
\* Verified or Rejected.
RefreshVerify(r, auth_header, db_users, db_revoked, now) ==
    LET r1 == [r EXCEPT !.op = "refresh", !.header = auth_header]
        hf == HeaderFailure(auth_header)
    IN  IF hf # ""
        THEN [r1 EXCEPT !.pc = "rejected", !.err = hf]
        ELSE LET refresh_token == SliceFrom7(auth_header.value)
                 user_data == verify_token(refresh_token, db_users, db_revoked, now)
                 reason == VerifyFailure(refresh_token, db_users, db_revoked, now)
                 r2 == [r1 EXCEPT !.refresh_token = refresh_token,
                                  !.vcalls = @ + 1, !.vreason = reason,
                                  !.users_read = db_users,
                                  !.reads = Append(@, now)]
             IN  IF VerifierFailureMessage(user_data, reason) # ""
                 THEN [r2 EXCEPT !.pc = "rejected",
                                 !.err = VerifierFailureMessage(user_data, reason)]
                 ELSE [r2 EXCEPT !.pc = "verified", !.user_data = user_data]

\* A variant of line 107 that passes the refresh lifetime as expires_delta.
MutRefreshCreateAccessLong(r, now) ==
    LET tok == create_access_token(r.user_data[1].username_or_email,
                                   <<timedelta(REFRESH_TOKEN_EXPIRE_DAYS)>>, now)
    IN  [r EXCEPT !.pc = "issued", !.access_token = tok,
                  !.minted = Append(@, Minted("access", tok, now))]

\* line 107: new_access_token = await create_access_token(sub), default ttl.
RefreshCreateAccess(r, now) ==
    LET tok == create_access_token(r.user_data[1].username_or_email, <<>>, now)
    IN  [r EXCEPT !.pc = "issued", !.access_token = tok,
                  !.minted = Append(@, Minted("access", tok, now))]

\* The refresh slot of the BackendTokens: line 118-121.
RefreshSlot(refresh_token) == Token(refresh_token, <<>>)

\* lines 108-122: access_expires_at and the BackendTokens; Verified -> Reissued.
RefreshRespond(r, now) ==
    LET access_expires_at == plus(now_utc(now), timedelta(ACCESS_TOKEN_EXPIRE_MINUTES))
    IN  [r EXCEPT
          !.pc = "reissued",
          !.access_expires_at = <<access_expires_at>>,
          !.reads = Append(@, now),
          !.resp = << [access_token |->
                           Token(r.access_token, ExpiresAtString(access_expires_at)),
                       refresh_token |-> RefreshSlot(r.refresh_token)] >>]

\* A variant that rotates: the presented credential is marked used.
MutStoreAfterRefreshRotating(db_revoked, refresh_token) ==
    db_revoked \cup {refresh_token}

\* The handler leaves the store as it found it: it never writes db.
StoreAfterRefresh(db_revoked, refresh_token) == db_revoked

\* ------------------------------------------------------------- state
VARIABLES
    clock,      \* the wall clock datetime.now reads, in ticks
    users,      \* usernames the user-lookup collaborator resolves (db)
    revoked,    \* credentials the store holds as no longer valid (db)
    req         \* the request-handling tasks

vars == <<clock, users, revoked, req>>

\* ------------------------------------------------------------ inputs
\* The credential strings some response has handed to a client.
CredsOf(r) ==
    IF r.resp = <<>> THEN {}
    ELSE IF r.op = "login"
    THEN { r.resp[1].backend_tokens.access_token.access_token,
           r.resp[1].backend_tokens.refresh_token.access_token }
    ELSE IF r.op = "token" THEN { r.resp[1].access_token }
    ELSE { r.resp[1].access_token.access_token,
           r.resp[1].refresh_token.access_token }

Known == UNION { CredsOf(req[i]) : i \in Requests }

\* A client edits the payload of a credential it holds (a later expiry) and
\* keeps the signature it cannot recompute.
Tamper(c) ==
    IF Len(c) = 1
    THEN << [c[1] EXCEPT !.exp = @ + timedelta(REFRESH_TOKEN_EXPIRE_DAYS)] >>
    ELSE c

\* Login forms: right password, wrong password, unknown user.
Forms ==
    { [username |-> "alice", password |-> "pw"],
      [username |-> "alice", password |-> "bad"],
      [username |-> "mallory", password |-> "pw"] }

\* Authorization headers a client may send.
Headers ==
    { NoHeader,
      Header(<<>>),
      Header(<<"T", "o", "k", "e", "n", " ", "x", "y", "z">>),
      Header(BearerPrefix) }
    \cup { Header(BearerPrefix \o c) : c \in Known }
    \cup { Header(BearerPrefix \o Tamper(c)) : c \in Known }

\* -------------------------------------------------------------- Init
Init ==
    /\ clock = 0
    /\ users = AllUsernames
    /\ revoked = {}
    /\ req = [i \in Requests |-> IdleReq]

\* ----------------------------------------------------------- actions
Terminal == {"done", "reissued", "rejected"}

InFlight == { j \in Requests : req[j].pc \notin Terminal \cup {"idle"} }

\* A request is taken by the lowest idle task (the tasks are interchangeable)
\* while fewer than MaxActive are in flight.
MayStart(i) ==
    /\ req[i].pc = "idle"
    /\ Cardinality(InFlight) < MaxActive
    /\ \A j \in Requests : j < i => req[j].pc # "idle"

\* History of a step: the control point reached.
Advance(r) == [r EXCEPT !.path = Append(@, r.pc)]

\* History of an arrival: the tasks in flight at that moment.
Arrive(r) == [Advance(r) EXCEPT !.overlapped = InFlight]

\* POST /login arrives at task i: authenticate_user.
login_authenticate(i) ==
    /\ MayStart(i)
    /\ \E form \in Forms :
         req' = [req EXCEPT ![i] = Arrive(LoginAuthenticate(req[i], form, users))]
    /\ UNCHANGED <<clock, users, revoked>>

login_access_expiry(i) ==
    /\ req[i].pc = "l_expiry"
    /\ req' = [req EXCEPT ![i] = Advance(LoginAccessExpiry(req[i], clock))]
    /\ UNCHANGED <<clock, users, revoked>>

login_create_access(i) ==
    /\ req[i].pc = "l_access"
    /\ req' = [req EXCEPT ![i] = Advance(LoginCreateAccess(req[i], clock))]
    /\ UNCHANGED <<clock, users, revoked>>

login_create_refresh(i) ==
    /\ req[i].pc = "l_refresh"
    /\ req' = [req EXCEPT ![i] = Advance(LoginCreateRefresh(req[i], clock))]
    /\ UNCHANGED <<clock, users, revoked>>

login_respond(i) ==
    /\ req[i].pc = "l_respond"
    /\ req' = [req EXCEPT ![i] = Advance(LoginRespond(req[i], clock))]
    /\ UNCHANGED <<clock, users, revoked>>

\* POST /token arrives at task i.
token_authenticate(i) ==
    /\ MayStart(i)
    /\ \E form \in Forms :
         req' = [req EXCEPT ![i] = Arrive(TokenAuthenticate(req[i], form, users))]
    /\ UNCHANGED <<clock, users, revoked>>

token_access_expiry(i) ==
    /\ req[i].pc = "t_expiry"
    /\ req' = [req EXCEPT ![i] = Advance(TokenAccessExpiry(req[i], clock))]
    /\ UNCHANGED <<clock, users, revoked>>

token_create_access(i) ==
    /\ req[i].pc = "t_access"
    /\ req' = [req EXCEPT ![i] = Advance(TokenCreateAccess(req[i], clock))]
    /\ UNCHANGED <<clock, users, revoked>>

\* POST /refresh arrives at task i: header checks and verify_token.
refresh_verify(i) ==
    /\ MayStart(i)
    /\ \E h \in Headers :
         /\ req' = [req EXCEPT ![i] = Arrive(RefreshVerify(req[i], h, users, revoked, clock))]
         /\ revoked' = IF req'[i].pc = "verified"
                       THEN StoreAfterRefresh(revoked, req'[i].refresh_token)
                       ELSE revoked
    /\ UNCHANGED <<clock, users>>

refresh_create_access(i) ==
    /\ req[i].pc = "verified"
    /\ req' = [req EXCEPT ![i] = Advance(RefreshCreateAccess(req[i], clock))]
    /\ UNCHANGED <<clock, users, revoked>>

refresh_respond(i) ==
    /\ req[i].pc = "issued"
    /\ req' = [req EXCEPT ![i] = Advance(RefreshRespond(req[i], clock))]
    /\ UNCHANGED <<clock, users, revoked>>

\* Time passes.
Tick ==
    /\ clock < MaxTime
    /\ clock' = clock + 1
    /\ UNCHANGED <<users, revoked, req>>

\* The user-lookup collaborator loses an account (deleted or disabled).
RemoveUser ==
    /\ \E u \in users : users' = users \ {u}
    /\ UNCHANGED <<clock, revoked, req>>

Step(i) ==
    \/ login_authenticate(i)
    \/ login_access_expiry(i)
    \/ login_create_access(i)
    \/ login_create_refresh(i)
    \/ login_respond(i)
    \/ token_authenticate(i)
    \/ token_access_expiry(i)
    \/ token_create_access(i)
    \/ refresh_verify(i)
    \/ refresh_create_access(i)
    \/ refresh_respond(i)

Next ==
    \/ \E i \in Requests : Step(i)
    \/ Tick
    \/ RemoveUser

Spec == Init /\ [][Next]_vars

\* =====================================================================
\* Properties
\* =====================================================================
Task(i) == req[i]

\* The credential string a refresh request presented after "Bearer ".
Presented(r) == SliceFrom7(r.header.value)

\* Every credential the issuer created so far, with its kind and instant.
AllMinted ==
    UNION { { req[i].minted[k] : k \in 1..Len(req[i].minted) } : i \in Requests }

RefreshKindCreds == { m.cred : m \in { x \in AllMinted : x.kind = "refresh" } }

\* The Token records of a response, each with the issuer's record of its
\* credential (the refresh slot of /refresh is echoed, not issued).
IssuedTokens(r) ==
    IF r.resp = <<>> THEN {}
    ELSE IF r.op = "login"
    THEN { [token |-> r.resp[1].backend_tokens.access_token, mint |-> r.minted[1]],
           [token |-> r.resp[1].backend_tokens.refresh_token, mint |-> r.minted[2]] }
    ELSE IF r.op = "token"
    THEN { [token |-> r.resp[1], mint |-> r.minted[1]] }
    ELSE { [token |-> r.resp[1].access_token, mint |-> r.minted[1]] }

EmittedTokens(r) ==
    { p.token : p \in IssuedTokens(r) }
    \cup (IF r.op = "refresh" /\ r.resp # <<>> THEN { r.resp[1].refresh_token } ELSE {})

Lifetime(kind) ==
    IF kind = "access" THEN ACCESS_TOKEN_EXPIRE_MINUTES ELSE REFRESH_TOKEN_EXPIRE_DAYS

\* ---------------------------------------------------------------- C1
RefreshPaths ==
    { <<"rejected">>, <<"verified">>, <<"verified", "issued">>,
      <<"verified", "issued", "reissued">> }

\* C1: a refresh invocation goes PresentedToken -> Rejected or
\* PresentedToken -> Verified -> (token issued) -> Reissued and nowhere else;
\* it can always take its next step until it is in one of the two terminal
\* states; a token is issued only after the header checks passed and
\* verify_token returned a non-empty result; a verifier failure ends in
\* Rejected with nothing issued.
C1_RefreshLifecycle ==
    \A i \in Requests :
      Task(i).op = "refresh" =>
        LET r == Task(i) IN
        /\ r.path \in RefreshPaths
        /\ r.pc = r.path[Len(r.path)]
        /\ (r.pc \in {"verified", "issued", "reissued"}
              => /\ r.header.present
                 /\ Len(r.header.value) > 7
                 /\ SubSeq(r.header.value, 1, 7) = BearerPrefix
                 /\ r.vcalls = 1
                 /\ r.vreason = "ok"
                 /\ r.user_data # <<>>)
        /\ (r.minted # <<>> => r.pc \in {"issued", "reissued"} /\ Len(r.minted) = 1)
        /\ (r.vcalls = 1 /\ r.vreason # "ok" => r.pc = "rejected")
        /\ (r.pc = "rejected" => r.minted = <<>> /\ r.resp = <<>> /\ r.err # "")
        /\ (r.pc = "reissued" => r.resp # <<>> /\ r.err = "")
        /\ (r.pc \notin {"reissued", "rejected"}
              => ENABLED (refresh_create_access(i) \/ refresh_respond(i)))

C1_Witness ==
    \E i, j \in Requests :
      /\ Task(i).op = "refresh" /\ Task(i).pc = "reissued"
      /\ Task(j).op = "refresh" /\ Task(j).pc = "rejected" /\ Task(j).vcalls = 1

\* ---------------------------------------------------------------- C2
\* C2: refresh reaches Reissued only for a credential of kind refresh (one
\* create_refresh_token issued); a valid access token presented to refresh
\* is rejected.
C2_ReissuedOnlyForRefreshKind ==
    \A i \in Requests :
      (Task(i).op = "refresh" /\ Task(i).pc = "reissued")
        => Presented(Task(i)) \in RefreshKindCreds

\* ---------------------------------------------------------------- C3
HeaderRejected(r, message) ==
    /\ r.pc = "rejected"
    /\ r.err = message
    /\ r.vcalls = 0
    /\ r.minted = <<>>
    /\ r.resp = <<>>

ExpiredPresented(r) ==
    /\ r.op = "refresh" /\ r.vcalls = 1
    /\ DecodeOk(r.refresh_token)
    /\ r.reads[1] >= r.refresh_token[1].exp

BadSignaturePresented(r) ==
    /\ r.op = "refresh" /\ r.vcalls = 1
    /\ ~DecodeOk(r.refresh_token)

UnknownSubjectPresented(r) ==
    /\ r.op = "refresh" /\ r.vcalls = 1
    /\ DecodeOk(r.refresh_token)
    /\ r.reads[1] < r.refresh_token[1].exp
    /\ r.refresh_token[1].sub \notin r.users_read

\* C4 as claimed: an expired refresh token is rejected with a reason that
\* differs from the one reported for a bad signature or an unknown subject.
C4_ExpiredReasonDistinct ==
    \A i, j \in Requests :
      (/\ ExpiredPresented(Task(i))
       /\ BadSignaturePresented(Task(j)) \/ UnknownSubjectPresented(Task(j)))
        => Task(i).pc = "rejected" /\ Task(i).err # Task(j).err

\* C4 as amended: an expired refresh token is rejected with "Invalid refresh
\* token.", the very message reported for a bad signature or an unknown
\* subject, and nothing is issued.
C4_ExpiredReportedAsInvalid ==
    \A i \in Requests :
      ExpiredPresented(Task(i)) =>
        /\ Task(i).pc = "rejected"
        /\ Task(i).err = "Invalid refresh token."
        /\ Task(i).minted = <<>>
        /\ \A j \in Requests :
             (BadSignaturePresented(Task(j)) \/ UnknownSubjectPresented(Task(j)))
               => Task(j).pc = "rejected" /\ Task(j).err = Task(i).err

C4_Witness ==
    \E i, j \in Requests :
      /\ ExpiredPresented(Task(i)) /\ Task(i).pc = "rejected"
      /\ BadSignaturePresented(Task(j)) /\ Task(j).pc = "rejected"

\* ---------------------------------------------------------------- C5
\* C5: a successful refresh returns an access token issued after the
\* verification, for the subject of the presented token, expiring at its
\* issuance instant plus the access-token lifetime; the refresh slot holds
\* the presented string itself with an empty expires_at.
C5_ReissuedPayload ==
    \A i \in Requests :
      (Task(i).op = "refresh" /\ Task(i).pc = "reissued") =>
        LET r == Task(i)
            bt == r.resp[1]
            new == bt.access_token.access_token
        IN
        /\ Len(r.minted) = 1
        /\ r.minted[1].kind = "access"
        /\ r.minted[1].cred = new
        /\ r.minted[1].at >= r.reads[1]
        /\ DecodeOk(new)
        /\ new[1].sub = Presented(r)[1].sub
        /\ new[1].exp = r.minted[1].at + ACCESS_TOKEN_EXPIRE_MINUTES
        /\ bt.access_token.token_type = "bearer"
        /\ bt.refresh_token.access_token = Presented(r)
        /\ bt.refresh_token.token_type = "bearer"
        /\ bt.refresh_token.expires_at = <<>>

C5_Witness ==
    \E i, j \in Requests :
      /\ Task(j).op = "login" /\ Task(j).pc = "done"
      /\ Task(i).op = "refresh" /\ Task(i).pc = "reissued"
      /\ Presented(Task(i)) = Task(j).resp[1].backend_tokens.refresh_token.access_token
      /\ Task(i).resp[1].access_token.access_token[1].exp
           > Task(j).resp[1].backend_tokens.access_token.access_token[1].exp

\* ---------------------------------------------------------------- C6
Resolves(form, db_users) ==
    { a \in Accounts : /\ a.username \in db_users
                       /\ (a.username = form.username \/ a.email = form.username) }

UnknownUser(r) ==
    r.op \in {"login", "token"} /\ Resolves(r.form, r.users_read) = {}

WrongPassword(r) ==
    /\ r.op \in {"login", "token"}
    /\ \E a \in Resolves(r.form, r.users_read) : a.password # r.form.password

\* C6: login and token answer an unknown user and a wrong password alike:
\* the same Unauthorized message, no response body, no token issued; tokens
\* are issued only for an authenticated identity.
C6_AuthFailuresIndistinguishable ==
    \A i \in Requests :
      LET r == Task(i) IN
      /\ (UnknownUser(r) \/ WrongPassword(r))
            => /\ r.pc = "rejected"
               /\ r.err = "Wrong username, email or password."
               /\ r.resp = <<>>
               /\ r.minted = <<>>
               /\ r.user = <<>>
      /\ (r.op \in {"login", "token"} /\ r.minted # <<>>)
            => /\ r.user # <<>>
               /\ ~UnknownUser(r) /\ ~WrongPassword(r)
               /\ r.user[1].username \in r.users_read
      /\ \A j \in Requests :
           (UnknownUser(r) /\ WrongPassword(Task(j)))
             => /\ r.pc = Task(j).pc
                /\ r.err = Task(j).err
                /\ r.resp = Task(j).resp

C6_Witness ==
    \E i, j \in Requests :
      /\ Task(i).op = "login" /\ UnknownUser(Task(i)) /\ Task(i).pc = "rejected"
      /\ Task(j).op = "token" /\ WrongPassword(Task(j)) /\ Task(j).pc = "rejected"

\* ---------------------------------------------------------------- C7
\* C7: for every token a response carries with a non-empty expires_at, the
\* instant reported equals the expiry in the credential's signed claims,
\* which is the issuer's issuance instant plus the lifetime and lies after
\* the issuance instant; so the reported instant is never later than the
\* instant from which the verifier treats the credential as expired.
C7_ReportedExpiryIsClaimsExpiry ==
    \A i \in Requests :
      \A p \in IssuedTokens(Task(i)) :
        p.token.expires_at # <<>> =>
          LET reported == p.token.expires_at[1]
              exp == p.token.access_token[1].exp
          IN  /\ exp = p.mint.at + Lifetime(p.mint.kind)
              /\ exp > p.mint.at
              /\ reported = exp
              /\ ~(reported > exp)

\* ---------------------------------------------------------------- C8
\* The UTC markers of a timestamp string: what follows the instant.
UTCMarkers(s) == { k \in 2..Len(s) : s[k] \in {"Z", "+00:00"} }

\* C8: every expires_at a response carries is the empty string or a timestamp
\* followed by exactly one UTC marker, "Z" or "+00:00", never both.
C8_ExpiresAtWellFormed ==
    \A i \in Requests :
      \A t \in EmittedTokens(Task(i)) :
        \/ t.expires_at = <<>>
        \/ /\ Len(t.expires_at) = 2
           /\ Cardinality(UTCMarkers(t.expires_at)) = 1

\* ---------------------------------------------------------------- C9
\* What a caller sees of a finished invocation.
Outcome(r) == [pc |-> r.pc, resp |-> r.resp, err |-> r.err]

\* The invocation of r run with no other task alive and the baseline store:
\* the handler's steps composed on r's own inputs, the user table it read
\* and the clock readings it and the issuer took.
RunAlone(r) ==
    IF r.op = "login"
    THEN LET a == LoginAuthenticate(IdleReq, r.form, r.users_read)
         IN  IF a.pc = "rejected" THEN a
             ELSE LoginRespond(
                    LoginCreateRefresh(
                      LoginCreateAccess(LoginAccessExpiry(a, r.reads[1]),
                                        r.minted[1].at),
                      r.minted[2].at),
                    r.reads[2])
    ELSE IF r.op = "token"
    THEN LET a == TokenAuthenticate(IdleReq, r.form, r.users_read)
         IN  IF a.pc = "rejected" THEN a
             ELSE TokenCreateAccess(TokenAccessExpiry(a, r.reads[1]), r.minted[1].at)
    ELSE LET v == RefreshVerify(IdleReq, r.header, r.users_read, {},
                                IF r.reads = <<>> THEN 0 ELSE r.reads[1])
         IN  IF v.pc = "rejected" THEN v
             ELSE RefreshRespond(RefreshCreateAccess(v, r.minted[1].at), r.reads[2])

\* C9: under every interleaving a finished invocation shows the outcome it
\* has when run alone on the same inputs and readings, and the store is
\* never written; two refreshes of one credential that each read the clock
\* before its expiry and found its subject are both Reissued, whether or not
\* they overlapped.
C9_InvocationsIndependent ==
    /\ revoked = {}
    /\ \A i \in Requests :
         Task(i).pc \in Terminal => Outcome(Task(i)) = Outcome(RunAlone(Task(i)))
    /\ \A i, j \in Requests :
         (/\ Task(i).op = "refresh" /\ Task(j).op = "refresh"
          /\ Task(i).pc \in Terminal /\ Task(j).pc \in Terminal
          /\ Task(i).header = Task(j).header
          /\ Task(i).vcalls = 1 /\ Task(j).vcalls = 1
          /\ DecodeOk(Task(i).refresh_token)
          /\ Task(i).reads[1] < Task(i).refresh_token[1].exp
          /\ Task(j).reads[1] < Task(j).refresh_token[1].exp
          /\ Task(i).refresh_token[1].sub \in Task(i).users_read
          /\ Task(j).refresh_token[1].sub \in Task(j).users_read)
           => Task(i).pc = "reissued" /\ Task(j).pc = "reissued"

C9_Witness ==
    \E i, j \in Requests :
      /\ i # j
      /\ Task(i).op = "refresh" /\ Task(j).op = "refresh"
      /\ Task(i).header = Task(j).header
      /\ Presented(Task(i)) \in RefreshKindCreds
      /\ i \in Task(j).overlapped
      /\ Task(i).pc = "reissued" /\ Task(j).pc = "reissued"
      /\ Task(i).path[Len(Task(i).path)] = "reissued"

\* --------------------------------------------------------------- C10
\* One session: a single login, finished, no /token request, and refresh
\* requests that each present a credential some response returned.
SingleSession ==
    /\ Cardinality({ i \in Requests : Task(i).op = "login" }) = 1
    /\ \A i \in Requests :
         /\ Task(i).op # "token"
         /\ Task(i).op = "login" => Task(i).pc = "done"
         /\ Task(i).op = "refresh"
              => Task(i).header \in { Header(BearerPrefix \o c) : c \in Known }

\* C10: in one session the refresh credential the client holds stays the
\* string issued at login, no refresh is Reissued at or after that
\* credential's expiry, and every access token issued expires before that
\* expiry plus the access-token lifetime.
C10_SessionLifetimeBounded ==
    SingleSession =>
      LET l == CHOOSE i \in Requests : Task(i).op = "login"
          original == Task(l).resp[1].backend_tokens.refresh_token.access_token
      IN  /\ \A i \in Requests :
               (Task(i).op = "refresh" /\ Task(i).pc = "reissued")
                 => /\ Task(i).resp[1].refresh_token.access_token = original
                    /\ Task(i).reads[1] < original[1].exp
          /\ \A m \in AllMinted :
               m.kind = "access"
                 => m.cred[1].exp < original[1].exp + ACCESS_TOKEN_EXPIRE_MINUTES

====
